---- MODULE Spec2Model ----
(***************************************************************************)
(* Model of the payments engine: the Account state machine (account.rs)    *)
(* and PaymentsEngine::execute with its transaction history                *)
(* (payments_engine.rs).                                                   *)
(*                                                                         *)
(* Decimal amounts are modelled as integers (a fixed number of decimal     *)
(* places, scaled): the code only adds, subtracts and compares them, which *)
(* rust_decimal does exactly.  Option<Decimal> is a sequence of length 0   *)
(* (None) or 1 (Some).  A HashMap is a function whose DOMAIN is its keys.  *)
(***************************************************************************)
EXTENDS Integers, Sequences, FiniteSets, TLC

\* ------------------------------------------------------------------ bounds
\* Number of records main hands to execute.
MaxSteps == 4
\* Number of calls made on the single account of AccountSpec.
MaxCalls == 4

\* u16 client ids and u32 transaction ids, two of each: enough for a claim
\* to name another client than the transfer's, and for an id to be reused.
Clients == {1, 2}
TxIds == {1, 2}
\* Decimal is signed and nothing in the code rejects a negative amount.
Amounts == {-1, 0, 1, 2}

\* ------------------------------------------------------------------ types
None == <<>>
Some(x) == <<x>>
unwrap(o) == o[1]

\* transaction_kind.rs: enum TransactionKind
TransactionKind == {"Deposit", "Withdrawal", "Dispute", "Resolve", "Chargeback"}

\* transaction.rs: Transaction::new
TransactionNew(kind, client_id, id, amount) ==
    [kind |-> kind, client_id |-> client_id, id |-> id, amount |-> amount,
     disputed |-> FALSE]

\* The records main can deserialize and hand to execute.  A claim usually
\* carries no amount, but the field is an Option for every kind.
Transfers ==
    { TransactionNew(k, c, i, a) :
        k \in {"Deposit", "Withdrawal"}, c \in Clients, i \in TxIds,
        a \in {Some(x) : x \in Amounts} \cup {None} }
Claims ==
    { TransactionNew(k, c, i, a) :
        k \in {"Dispute", "Resolve", "Chargeback"}, c \in Clients, i \in TxIds,
        a \in {None, Some(1)} }

\* ---------------------------------------------------------------- Account
\* account.rs: Account::new
AccountNew(id) ==
    [id |-> id, available |-> 0, held |-> 0, total |-> 0, locked |-> FALSE]

\* Mutant of deposit: a locked account takes no deposit.
deposit_unless_locked(self, amount) ==
    IF self.locked THEN self
    ELSE [self EXCEPT !.available = @ + amount, !.total = @ + amount]

\* account.rs: Account::deposit
deposit(self, amount) ==
    [self EXCEPT !.available = @ + amount, !.total = @ + amount]

\* Mutant of withdraw: the guard is >= instead of >.
withdraw_strict(self, amount) ==
    IF amount >= self.available
    THEN [account |-> self, ret |-> FALSE]
    ELSE [account |-> [self EXCEPT !.available = @ - amount, !.total = @ - amount],
          ret |-> TRUE]

\* Mutant of withdraw: no guard, the amount is always taken.
withdraw_unguarded(self, amount) ==
    [account |-> [self EXCEPT !.available = @ - amount, !.total = @ - amount],
     ret |-> TRUE]

\* account.rs: Account::withdraw; ret is the returned bool
withdraw(self, amount) ==
    IF amount > self.available
    THEN [account |-> self, ret |-> FALSE]
    ELSE [account |-> [self EXCEPT !.available = @ - amount, !.total = @ - amount],
          ret |-> TRUE]

\* Mutant of dispute: the amount leaves available and is not held.
dispute_no_hold(self, amount) ==
    IF amount > self.available
    THEN self
    ELSE [self EXCEPT !.available = @ - amount]

\* account.rs: Account::dispute
dispute(self, amount) ==
    IF amount > self.available
    THEN self
    ELSE [self EXCEPT !.available = @ - amount, !.held = @ + amount]

\* Mutant of resolve: the amount leaves held and is not released.
resolve_no_release(self, amount) ==
    IF amount > self.held
    THEN self
    ELSE [self EXCEPT !.held = @ - amount]

\* account.rs: Account::resolve
resolve(self, amount) ==
    IF amount > self.held
    THEN self
    ELSE [self EXCEPT !.held = @ - amount, !.available = @ + amount]

\* Mutant of chargeback: locks the account before the guard, and forgets
\* to take the amount off the total.
chargeback_sloppy(self, amount) ==
    IF amount > self.held
    THEN [self EXCEPT !.locked = TRUE]
    ELSE [self EXCEPT !.held = @ - amount, !.locked = TRUE]

\* account.rs: Account::chargeback
chargeback(self, amount) ==
    IF amount > self.held
    THEN self
    ELSE [self EXCEPT !.held = @ - amount, !.total = @ - amount, !.locked = TRUE]

\* ----------------------------------------------------------------- engine
\* Mutant of handle_transfer: every transfer is reported as one to record.
handle_transfer_always(kind, account, amount) ==
    [account |-> IF kind = "Deposit" THEN deposit(account, amount)
                 ELSE withdraw(account, amount).account,
     ret |-> TRUE]

\* payments_engine.rs: handle_transfer.  The bool returned by withdraw is
\* dropped; the function returns whether the kind is Deposit.
handle_transfer(kind, account, amount) ==
    [account |-> IF kind = "Deposit" THEN deposit(account, amount)
                 ELSE withdraw(account, amount).account,
     ret |-> (kind = "Deposit")]

\* payments_engine.rs: handle_claim
handle_claim(kind, client, amount) ==
    CASE kind = "Dispute" -> dispute(client, amount)
      [] kind = "Resolve" -> resolve(client, amount)
      [] OTHER -> chargeback(client, amount)

\* HashMap::entry(k).or_insert_with(|| Account::new(k)) of execute
or_insert(accts, client_id) ==
    IF client_id \in DOMAIN accts THEN accts
    ELSE [c \in DOMAIN accts \cup {client_id} |->
            IF c = client_id THEN AccountNew(client_id) ELSE accts[c]]

\* HashMap::insert(k, v): adds the key or replaces its value
insert(map, k, v) ==
    [x \in DOMAIN map \cup {k} |-> IF x = k THEN v ELSE map[x]]

\* Mutant of get_mut: the record is looked up by the client id.
get_mut_by_client(hist, tx) ==
    IF tx.client_id \in DOMAIN hist THEN Some(tx.client_id) ELSE None

\* self.history.get_mut(&tx.id): the key of the record found, or None
get_mut(hist, tx) ==
    IF tx.id \in DOMAIN hist THEN Some(tx.id) ELSE None

\* Mutant of check_flag: a Resolve or Chargeback goes on whatever the flag.
check_flag_unchecked(kind, disputed) ==
    IF kind = "Dispute" THEN [proceed |-> TRUE, disputed |-> TRUE]
    ELSE [proceed |-> TRUE, disputed |-> FALSE]

\* Mutant of check_flag: a Dispute of a record already disputed stops there.
check_flag_once(kind, disputed) ==
    IF kind = "Dispute" THEN [proceed |-> ~disputed, disputed |-> TRUE]
    ELSE IF ~disputed THEN [proceed |-> FALSE, disputed |-> disputed]
    ELSE [proceed |-> TRUE, disputed |-> FALSE]

\* The disputed-flag protocol of execute: whether the claim goes on to the
\* account, and the flag it leaves on the record.
check_flag(kind, disputed) ==
    IF kind = "Dispute" THEN [proceed |-> TRUE, disputed |-> TRUE]
    ELSE IF ~disputed THEN [proceed |-> FALSE, disputed |-> disputed]
    ELSE [proceed |-> TRUE, disputed |-> FALSE]

\* execute, Deposit | Withdrawal arm
execute_transfer(accts, hist, tx) ==
    LET inserted == or_insert(accts, tx.client_id) IN
    IF tx.amount = None
    THEN \* tx.amount.unwrap() panics, after the account entry was taken
         [accounts |-> inserted, history |-> hist, ret |-> "panic"]
    ELSE LET r == handle_transfer(tx.kind, inserted[tx.client_id], unwrap(tx.amount)) IN
         [accounts |-> [inserted EXCEPT ![tx.client_id] = r.account],
          history |-> IF r.ret THEN insert(hist, tx.id, tx) ELSE hist,
          ret |-> "transfer"]

\* Mutant of execute_claim: the amount carried by the claim, when it has
\* one, is used in place of the recorded transfer's.
execute_claim_own_amount(accts, hist, tx) ==
    LET found == get_mut(hist, tx) IN
    IF found = None
    THEN [accounts |-> accts, history |-> hist, ret |-> "absent"]
    ELSE LET key == unwrap(found)
             disputed_tx == hist[key]
             flag == check_flag(tx.kind, disputed_tx.disputed)
             marked == [hist EXCEPT ![key].disputed = flag.disputed]
             amount == IF tx.amount # None THEN tx.amount ELSE disputed_tx.amount
         IN  IF ~flag.proceed
             THEN [accounts |-> accts, history |-> hist, ret |-> "undisputed"]
             ELSE IF tx.client_id \notin DOMAIN accts
             THEN [accounts |-> accts, history |-> marked, ret |-> "panic"]
             ELSE [accounts |->
                     [accts EXCEPT ![tx.client_id] =
                        handle_claim(tx.kind, accts[tx.client_id], unwrap(amount))],
                   history |-> marked, ret |-> "claim"]

\* execute, claim arm, were the claim applied to the account of the client
\* of the recorded transfer instead of the claim's own client
execute_claim_recorded_client(accts, hist, tx) ==
    LET found == get_mut(hist, tx) IN
    IF found = None
    THEN [accounts |-> accts, history |-> hist, ret |-> "absent"]
    ELSE LET key == unwrap(found)
             disputed_tx == hist[key]
             flag == check_flag(tx.kind, disputed_tx.disputed)
             marked == [hist EXCEPT ![key].disputed = flag.disputed]
         IN  IF ~flag.proceed
             THEN [accounts |-> accts, history |-> hist, ret |-> "undisputed"]
             ELSE IF disputed_tx.client_id \notin DOMAIN accts
             THEN [accounts |-> accts, history |-> marked, ret |-> "panic"]
             ELSE [accounts |->
                     [accts EXCEPT ![disputed_tx.client_id] =
                        handle_claim(tx.kind, accts[disputed_tx.client_id],
                                     unwrap(disputed_tx.amount))],
                   history |-> marked, ret |-> "claim"]

\* execute, claim arm (Dispute, Resolve, Chargeback)
execute_claim(accts, hist, tx) ==
    LET found == get_mut(hist, tx) IN
    IF found = None
    THEN [accounts |-> accts, history |-> hist, ret |-> "absent"]
    ELSE LET key == unwrap(found)
             disputed_tx == hist[key]
             flag == check_flag(tx.kind, disputed_tx.disputed)
             marked == [hist EXCEPT ![key].disputed = flag.disputed]
         IN  IF ~flag.proceed
             THEN [accounts |-> accts, history |-> hist, ret |-> "undisputed"]
             ELSE IF tx.client_id \notin DOMAIN accts
             THEN \* accounts.get_mut(&tx.client_id).unwrap() panics
                  [accounts |-> accts, history |-> marked, ret |-> "panic"]
             ELSE [accounts |->
                     [accts EXCEPT ![tx.client_id] =
                        handle_claim(tx.kind, accts[tx.client_id],
                                     unwrap(disputed_tx.amount))],
                   history |-> marked, ret |-> "claim"]

\* payments_engine.rs: PaymentsEngine::execute
execute(accts, hist, tx) ==
    IF tx.kind \in {"Deposit", "Withdrawal"}
    THEN execute_transfer(accts, hist, tx)
    ELSE execute_claim(accts, hist, tx)

\* ------------------------------------------------------------------ state
VARIABLES
    accounts,   \* PaymentsEngine.accounts: client id -> Account
    history,    \* PaymentsEngine.history: transaction id -> Transaction
    panicked,   \* the process has panicked inside execute
    steps,      \* number of records main has handed to execute
    tx,         \* the record of the last call of execute
    ret,        \* where that call stopped: "transfer", "absent" (no such
                \* record), "undisputed" (flag not set), "claim" or "panic"
    pre,        \* accounts and history as they were before that call
    round,      \* set by a Resolve/Chargeback that comes right after an
                \* applied Dispute of the same id and client: the client's
                \* account before that Dispute, and the amount disputed
    rejected,   \* ids of the Withdrawals rejected for insufficient funds
    charged,    \* ids of the recorded transfers a Chargeback was applied to
    nonneg,     \* no Deposit or Withdrawal so far had a negative amount
    account,    \* AccountSpec: the account the calls are made on
    before,     \* AccountSpec: that account before the last call
    call,       \* AccountSpec: the last call made on it
    ncalls,     \* AccountSpec: number of calls made
    deposits    \* AccountSpec: sum of the amounts deposited, while only
                \* deposits have been made

engineVars == <<accounts, history, panicked, steps, tx, ret, pre, round, rejected, charged,
               nonneg>>
accountVars == <<account, before, call, ncalls, deposits>>
vars == <<accounts, history, panicked, steps, tx, ret, pre, round, rejected, charged, nonneg,
          account, before, call, ncalls, deposits>>

EmptyMap == [x \in {} |-> 0]
NoTx == [kind |-> "None", client_id |-> 0, id |-> 0, amount |-> None, disputed |-> FALSE]
NoCall == [op |-> "new", amount |-> 0, ret |-> TRUE]

\* PaymentsEngine::new
EngineInit ==
    /\ accounts = EmptyMap
    /\ history = EmptyMap
    /\ panicked = FALSE
    /\ steps = 0
    /\ tx = NoTx
    /\ ret = "new"
    /\ pre = [accounts |-> EmptyMap, history |-> EmptyMap, charged |-> {}]
    /\ round = None
    /\ rejected = {}
    /\ charged = {}
    /\ nonneg = TRUE

\* let mut account = Account::new(1)
AccountInit ==
    /\ account = AccountNew(1)
    /\ before = AccountNew(1)
    /\ call = NoCall
    /\ ncalls = 0
    /\ deposits = Some(0)

Init == EngineInit /\ AccountInit

\* The available and held funds of a client in an account table, an
\* account that is not there yet counting as a new one.
Available(accts, c) == IF c \in DOMAIN accts THEN accts[c].available ELSE 0
Held(accts, c) == IF c \in DOMAIN accts THEN accts[c].held ELSE 0

\* Transaction t, executed on the given tables with outcome r, is a
\* Withdrawal that Account::withdraw rejects.
WithdrawalRejected(accts, t, r) ==
    /\ t.kind = "Withdrawal"
    /\ r = "transfer"
    /\ unwrap(t.amount) > Available(accts, t.client_id)

\* Transaction t, executed on the given tables with outcome r, is a claim
\* of the given kind that reaches the account and passes its guard.
ClaimApplied(kind, accts, hist, t, r) ==
    /\ t.kind = kind
    /\ r = "claim"
    /\ IF kind = "Dispute"
       THEN unwrap(hist[t.id].amount) <= accts[t.client_id].available
       ELSE unwrap(hist[t.id].amount) <= accts[t.client_id].held

\* One iteration of main's loop: engine.execute(transaction)
Execute(t) ==
    /\ ~panicked
    /\ steps < MaxSteps
    /\ \E r \in {execute(accounts, history, t)} :
          /\ accounts' = r.accounts
          /\ history' = r.history
          /\ panicked' = (r.ret = "panic")
          /\ ret' = r.ret
          /\ rejected' = IF WithdrawalRejected(accounts, t, r.ret)
                         THEN rejected \cup {t.id} ELSE rejected
          /\ charged' = IF ClaimApplied("Chargeback", accounts, history, t, r.ret)
                        THEN charged \cup {t.id}
                        ELSE IF t.kind = "Deposit" /\ r.ret = "transfer"
                        THEN charged \ {t.id}  \* another transfer takes the id
                        ELSE charged
    /\ nonneg' = (nonneg /\ (t.amount = None \/ t.kind \in {"Dispute", "Resolve", "Chargeback"}
                                \/ unwrap(t.amount) >= 0))
    /\ steps' = steps + 1
    /\ tx' = t
    /\ pre' = [accounts |-> accounts, history |-> history, charged |-> charged]
    /\ round' = IF /\ ClaimApplied("Dispute", pre.accounts, pre.history, tx, ret)
                   /\ t.kind \in {"Resolve", "Chargeback"}
                   /\ t.id = tx.id
                   /\ t.client_id = tx.client_id
                THEN Some([before |-> pre.accounts[tx.client_id],
                           amount |-> unwrap(pre.history[tx.id].amount)])
                ELSE None
    /\ UNCHANGED accountVars

ExecuteTransfer == \E t \in Transfers : Execute(t)
ExecuteClaim == \E t \in Claims : Execute(t)

Next == ExecuteTransfer \/ ExecuteClaim

Spec == Init /\ [][Next]_vars

\* ------------------------------------------------- the account on its own
\* The calls of account.rs's tests: one operation on one account.
Call(op, amount, after, r) ==
    /\ ncalls < MaxCalls
    /\ account' = after
    /\ call' = [op |-> op, amount |-> amount, ret |-> r]
    /\ ncalls' = ncalls + 1
    /\ deposits' = IF op = "deposit" /\ deposits # None
                   THEN Some(unwrap(deposits) + amount) ELSE None
    /\ before' = account
    /\ UNCHANGED engineVars

Deposit == \E a \in Amounts : Call("deposit", a, deposit(account, a), TRUE)
Withdraw ==
    \E a \in Amounts :
        Call("withdraw", a, withdraw(account, a).account, withdraw(account, a).ret)
Dispute == \E a \in Amounts : Call("dispute", a, dispute(account, a), TRUE)
Resolve == \E a \in Amounts : Call("resolve", a, resolve(account, a), TRUE)
Chargeback == \E a \in Amounts : Call("chargeback", a, chargeback(account, a), TRUE)

AccountNext == Deposit \/ Withdraw \/ Dispute \/ Resolve \/ Chargeback

AccountSpec == Init /\ [][AccountNext]_vars

\* ------------------------------------------------------------------ claims

\* C1: after any prefix of any transaction sequence, every account of the
\* account table has total = available + held.
TotalIsAvailablePlusHeld ==
    \A c \in DOMAIN accounts :
        accounts[c].total = accounts[c].available + accounts[c].held

\* C1's case: funds are partly held and partly available after a claim.
HeldAndAvailableReached ==
    \E c \in DOMAIN accounts :
        /\ accounts[c].held > 0
        /\ accounts[c].available > 0
        /\ ret = "claim"

\* The guard of the last call on the account failed.
GuardFailed ==
    \/ call.op \in {"withdraw", "dispute"} /\ call.amount > before.available
    \/ call.op \in {"resolve", "chargeback"} /\ call.amount > before.held

\* C2: a withdraw, dispute, resolve or chargeback whose guard fails leaves
\* the five fields of the account as they were before the call.
RejectedCallLeavesAccount ==
    GuardFailed =>
        /\ account.id = before.id
        /\ account.available = before.available
        /\ account.held = before.held
        /\ account.total = before.total
        /\ account.locked = before.locked

\* C2's case: a chargeback of more than is held, on an unlocked account
\* that holds funds.
RejectedChargebackReached ==
    /\ call.op = "chargeback"
    /\ call.amount > before.held
    /\ before.held > 0
    /\ ~before.locked

\* C3: deposit(d) adds exactly d to available and total and leaves held and
\* locked alone, so deposits alone add up to their sum; withdraw(w) with
\* w <= available takes exactly w off available and total, leaves held and
\* locked alone and returns true.
DepositAndWithdrawExact ==
    /\ call.op = "deposit" =>
          /\ account.available = before.available + call.amount
          /\ account.total = before.total + call.amount
          /\ account.held = before.held
          /\ account.locked = before.locked
    /\ deposits # None =>
          /\ account.available = unwrap(deposits)
          /\ account.total = unwrap(deposits)
    /\ (call.op = "withdraw" /\ call.amount <= before.available) =>
          /\ account.available = before.available - call.amount
          /\ account.total = before.total - call.amount
          /\ account.held = before.held
          /\ account.locked = before.locked
          /\ call.ret = TRUE

\* C3's case: two deposits have added up to 3 and all of it is withdrawn
\* in two withdrawals.
DepositsWithdrawnReached ==
    /\ call.op = "withdraw"
    /\ call.amount = before.available
    /\ call.amount > 0
    /\ ncalls = 4
    /\ account.total = 0

\* The last call of execute applied a transfer: a Deposit, or a Withdrawal
\* of no more than the available funds.
TransferApplied ==
    /\ ret = "transfer"
    /\ \/ tx.kind = "Deposit"
       \/ /\ tx.kind = "Withdrawal"
          /\ unwrap(tx.amount) <= Available(pre.accounts, tx.client_id)

\* C4: after execute has applied a transfer (any Deposit, a Withdrawal within
\* the available funds), a copy of the transaction is in history under its id.
AppliedTransferRecorded ==
    TransferApplied => (tx.id \in DOMAIN history /\ history[tx.id] = tx)

\* The last call of execute was a claim of an id with no record in history.
ClaimOfAbsent ==
    /\ tx.kind \in {"Dispute", "Resolve", "Chargeback"}
    /\ tx.id \notin DOMAIN pre.history

\* C5: a Withdrawal of more than the available funds leaves history as it
\* was, and a later Dispute of its id, when no record has that id, changes no
\* account.
RejectedWithdrawalNotRecorded ==
    /\ WithdrawalRejected(pre.accounts, tx, ret) => history = pre.history
    /\ (tx.kind = "Dispute" /\ tx.id \in rejected /\ tx.id \notin DOMAIN pre.history)
          => accounts = pre.accounts

\* C5's case: the Dispute of a rejected Withdrawal's id, by a client whose
\* account has funds.
RejectedWithdrawalDisputedReached ==
    /\ tx.kind = "Dispute"
    /\ tx.id \in rejected
    /\ tx.id \notin DOMAIN pre.history
    /\ Available(accounts, tx.client_id) > 0

\* C6: a Dispute, Resolve or Chargeback of an id that is no key of history
\* creates and changes no account and changes no record of history.
ClaimOfAbsentIgnored ==
    ClaimOfAbsent =>
        /\ accounts = pre.accounts
        /\ history = pre.history
        /\ ret = "absent"

\* C6's case: such a claim while another transfer is recorded and disputed,
\* from a client with no account.
ClaimOfAbsentReached ==
    /\ ClaimOfAbsent
    /\ \E i \in DOMAIN pre.history : pre.history[i].disputed
    /\ tx.client_id \notin DOMAIN accounts

\* The last call of execute was a Resolve or Chargeback of a recorded
\* transfer whose disputed flag was false.
ClaimOfUndisputed ==
    /\ tx.kind \in {"Resolve", "Chargeback"}
    /\ tx.id \in DOMAIN pre.history
    /\ ~pre.history[tx.id].disputed

\* C7: a Resolve or Chargeback of a recorded transfer whose disputed flag is
\* false changes no account (none gets locked) and leaves the flag false.
ClaimOfUndisputedIgnored ==
    ClaimOfUndisputed =>
        /\ accounts = pre.accounts
        /\ history = pre.history
        /\ ~history[tx.id].disputed
        /\ ret = "undisputed"

\* C7's case: a Chargeback of an undisputed transfer whose amount the
\* client's account does hold, for another dispute.
ChargebackOfUndisputedReached ==
    /\ ClaimOfUndisputed
    /\ tx.kind = "Chargeback"
    /\ tx.client_id \in DOMAIN pre.accounts
    /\ unwrap(pre.history[tx.id].amount) > 0
    /\ unwrap(pre.history[tx.id].amount) <= Held(pre.accounts, tx.client_id)

\* The last two calls of execute were an applied Dispute and then a claim
\* of the given kind, of the same transfer and for the same client.
DisputeThen(kind) == round # None /\ tx.kind = kind

\* The account of the last call's client has the balances and the lock of
\* the given account.
SameBalances(acct) ==
    /\ accounts[tx.client_id].available = acct.available
    /\ accounts[tx.client_id].held = acct.held
    /\ accounts[tx.client_id].total = acct.total
    /\ accounts[tx.client_id].locked = acct.locked

FundsRemoved ==
    LET b == unwrap(round).before
        a == unwrap(round).amount
    IN  /\ accounts[tx.client_id].available = b.available - a
        /\ accounts[tx.client_id].total = b.total - a
        /\ accounts[tx.client_id].held = b.held
        /\ accounts[tx.client_id].locked

BalancesUnchanged ==
    /\ DOMAIN accounts = DOMAIN pre.accounts
    /\ \A c \in DOMAIN accounts :
          /\ accounts[c].available = pre.accounts[c].available
          /\ accounts[c].held = pre.accounts[c].held
          /\ accounts[c].total = pre.accounts[c].total

\* C10: once a Chargeback has been applied to a recorded transfer, a later
\* Dispute, Resolve or Chargeback of that transfer changes no balance of any
\* account.
ChargedBackIsTerminal ==
    (tx.kind \in {"Dispute", "Resolve", "Chargeback"} /\ tx.id \in pre.charged)
        => BalancesUnchanged

\* The last call of execute was a claim of a recorded transfer that passed
\* the flag check, for a client with an account.
ClaimReachedAccount ==
    /\ tx.kind \in {"Dispute", "Resolve", "Chargeback"}
    /\ tx.id \in DOMAIN pre.history
    /\ tx.kind # "Dispute" => pre.history[tx.id].disputed
    /\ tx.client_id \in DOMAIN pre.accounts

\* The amount of the transfer recorded under the last call's id.
RecordedAmount == unwrap(pre.history[tx.id].amount)

\* The recorded amount exceeds the balance the claim's guard compares it
\* with: available for a Dispute, held for a Resolve or Chargeback.
ExceedsGuardedBalance ==
    IF tx.kind = "Dispute"
    THEN RecordedAmount > pre.accounts[tx.client_id].available
    ELSE RecordedAmount > pre.accounts[tx.client_id].held

\* C11: a Dispute, Resolve or Chargeback of a recorded transfer whose amount
\* exceeds the guarded balance leaves every account and every record of
\* history, the record's disputed flag included, as before the call.
GuardRejectedClaimChangesNothing ==
    (ClaimReachedAccount /\ ExceedsGuardedBalance) =>
        /\ accounts = pre.accounts
        /\ history = pre.history

\* The accounts that were in the table before the last call are as they
\* were.
ExistingAccountsUnchanged ==
    \A c \in DOMAIN pre.accounts :
        c \in DOMAIN accounts /\ accounts[c] = pre.accounts[c]

\* C12 as stated: a Withdrawal rejected for insufficient funds leaves the
\* account table as it was: no account is changed and none is added, also
\* when it is the first transaction of its client.
RejectedWithdrawalLeavesTable ==
    WithdrawalRejected(pre.accounts, tx, ret) => accounts = pre.accounts

\* C12 as amended: a rejected Withdrawal changes no account that was in the
\* table and leaves history alone; when it is the first transaction of its
\* client, the table gains that client's account, with zero balances and
\* unlocked, and nothing else.
RejectedWithdrawalOnlyCreates ==
    WithdrawalRejected(pre.accounts, tx, ret) =>
        /\ ExistingAccountsUnchanged
        /\ history = pre.history
        /\ DOMAIN accounts = DOMAIN pre.accounts \cup {tx.client_id}
        /\ accounts[tx.client_id].id = tx.client_id
        /\ tx.client_id \notin DOMAIN pre.accounts =>
              /\ accounts[tx.client_id].available = 0
              /\ accounts[tx.client_id].held = 0
              /\ accounts[tx.client_id].total = 0
              /\ ~accounts[tx.client_id].locked

\* C12's case: a rejected Withdrawal as the first transaction of a client,
\* while another client has an account.
RejectedFirstWithdrawalReached ==
    /\ WithdrawalRejected(pre.accounts, tx, ret)
    /\ tx.client_id \notin DOMAIN pre.accounts
    /\ DOMAIN pre.accounts # {}

\* C13: the amount an applied Dispute, Resolve or Chargeback moves is the
\* amount of the transfer recorded under its id, and the state it leaves is
\* the same whatever amount the claim itself carries, if any.
ClaimMovesRecordedAmount ==
    ClaimReachedAccount =>
        LET a == RecordedAmount
            b == pre.accounts[tx.client_id]
            n == accounts[tx.client_id]
        IN  /\ ret = "claim"
            /\ history = [pre.history EXCEPT ![tx.id].disputed = (tx.kind = "Dispute")]
            /\ n.id = b.id
            /\ IF ExceedsGuardedBalance
               THEN n = b
               ELSE CASE tx.kind = "Dispute" ->
                           /\ n.available = b.available - a
                           /\ n.held = b.held + a
                           /\ n.total = b.total
                           /\ n.locked = b.locked
                      [] tx.kind = "Resolve" ->
                           /\ n.available = b.available + a
                           /\ n.held = b.held - a
                           /\ n.total = b.total
                           /\ n.locked = b.locked
                      [] OTHER ->
                           /\ n.available = b.available
                           /\ n.held = b.held - a
                           /\ n.total = b.total - a
                           /\ n.locked

\* C13's case: an applied claim that carries an amount other than the
\* recorded one.
ClaimWithOwnAmountReached ==
    /\ ClaimReachedAccount
    /\ ~ExceedsGuardedBalance
    /\ tx.kind = "Resolve"
    /\ tx.amount # None
    /\ unwrap(tx.amount) # RecordedAmount

\* The last call of execute was a claim that passed the history lookup and
\* the disputed-flag check.
ClaimPassedChecks ==
    /\ tx.kind \in {"Dispute", "Resolve", "Chargeback"}
    /\ tx.id \in DOMAIN pre.history
    /\ tx.kind # "Dispute" => pre.history[tx.id].disputed

\* C14: whenever a claim passes the history lookup and the flag check, the
\* account table has an account for the claim's client, and execute's
\* account lookup does not panic.
ClaimAccountExists ==
    ClaimPassedChecks =>
        /\ tx.client_id \in DOMAIN pre.accounts
        /\ ret # "panic"
        /\ ~panicked

\* C15: while no Deposit or Withdrawal has had a negative amount, every
\* account has available >= 0, held >= 0 and total >= 0.
BalancesNonNegative ==
    nonneg =>
        \A c \in DOMAIN accounts :
            /\ accounts[c].available >= 0
            /\ accounts[c].held >= 0
            /\ accounts[c].total >= 0

\* C15's case: with non-negative amounts only, a Withdrawal or a claim has
\* been turned down by its guard on an account that holds funds.
GuardHeldBalancesReached ==
    /\ nonneg
    /\ tx.client_id \in DOMAIN pre.accounts
    /\ pre.accounts[tx.client_id].held > 0
    /\ \/ WithdrawalRejected(pre.accounts, tx, ret)
       \/ ClaimReachedAccount /\ ExceedsGuardedBalance

\* The last call of execute was a Dispute of a recorded transfer whose
\* disputed flag was already true, for a client with an account.
ReDispute ==
    /\ tx.kind = "Dispute"
    /\ tx.id \in DOMAIN pre.history
    /\ pre.history[tx.id].disputed
    /\ tx.client_id \in DOMAIN pre.accounts

\* C16: a Dispute of a transfer whose flag is already true keeps the flag
\* true and applies Account::dispute with the same amount again: when the
\* amount is within the available funds it moves from available to held
\* once more, and otherwise the account is left alone.
ReDisputeHoldsAgain ==
    ReDispute =>
        LET a == RecordedAmount
            b == pre.accounts[tx.client_id]
            n == accounts[tx.client_id]
        IN  /\ history[tx.id].disputed
            /\ history = pre.history
            /\ IF a <= b.available
               THEN /\ n.available = b.available - a
                    /\ n.held = b.held + a
                    /\ n.total = b.total
               ELSE n = b

\* C16's case: the re-dispute of a positive amount that the account
\* already holds and can still cover: held grows a second time.
ReDisputeHeldTwiceReached ==
    /\ ReDispute
    /\ RecordedAmount > 0
    /\ pre.accounts[tx.client_id].held >= RecordedAmount
    /\ accounts[tx.client_id].held = pre.accounts[tx.client_id].held + RecordedAmount

\* C17: every Chargeback executed against a recorded transfer whose flag is
\* true leaves the claim's account locked, with held and total each lower
\* by the transfer's amount.
ChargebackOfDisputedTakesFunds ==
    (/\ tx.kind = "Chargeback"
     /\ tx.id \in DOMAIN pre.history
     /\ pre.history[tx.id].disputed) =>
        /\ ret = "claim"
        /\ accounts[tx.client_id].locked
        /\ accounts[tx.client_id].held = pre.accounts[tx.client_id].held - RecordedAmount
        /\ accounts[tx.client_id].total = pre.accounts[tx.client_id].total - RecordedAmount

\* The sum of the recorded amounts of the given ids.
RECURSIVE SumOfAmounts(_)
SumOfAmounts(ids) ==
    IF ids = {} THEN 0
    ELSE LET i == CHOOSE x \in ids : TRUE
         IN  unwrap(history[i].amount) + SumOfAmounts(ids \ {i})

\* The ids of the records of a client whose disputed flag is true.
OpenDisputes(c) ==
    {i \in DOMAIN history : history[i].client_id = c /\ history[i].disputed}

\* C18: after every call of execute that returns, for every account, held
\* is the sum of the amounts of the client's history records whose disputed
\* flag is true.
HeldIsSumOfOpenDisputes ==
    ~panicked =>
        \A c \in DOMAIN accounts : accounts[c].held = SumOfAmounts(OpenDisputes(c))

\* The record under id i is the transfer it was before the last call, and
\* its flag has changed only if that call was a claim of id i.
RecordKept(i) ==
    /\ i \in DOMAIN history
    /\ history[i].kind = pre.history[i].kind
    /\ history[i].client_id = pre.history[i].client_id
    /\ history[i].id = pre.history[i].id
    /\ history[i].amount = pre.history[i].amount
    /\ history[i].disputed # pre.history[i].disputed =>
          (tx.kind \in {"Dispute", "Resolve", "Chargeback"} /\ tx.id = i)

\* The last call of execute was a Deposit of id i that went through.
DepositReuses(i) == tx.kind = "Deposit" /\ tx.id = i /\ ret = "transfer"

\* C19 as stated: a record of history keeps its kind, client_id and amount
\* in every later state, and its flag changes only by a claim of its id,
\* also when a later Deposit or Withdrawal reuses the id.
RecordedTransferImmutable ==
    \A i \in DOMAIN pre.history : RecordKept(i)

\* C19 as amended: the same, except that a later Deposit of the same id
\* replaces the record by a copy of itself, with the flag false; a later
\* Withdrawal of the same id leaves the record alone.
RecordedTransferKeptUnlessDeposit ==
    \A i \in DOMAIN pre.history :
        IF DepositReuses(i) THEN history[i] = tx ELSE RecordKept(i)

\* C19's case: a Withdrawal that goes through reuses the id of a recorded,
\* disputed Deposit.
WithdrawalReusesIdReached ==
    /\ tx.kind = "Withdrawal"
    /\ ret = "transfer"
    /\ ~WithdrawalRejected(pre.accounts, tx, ret)
    /\ tx.id \in DOMAIN pre.history
    /\ pre.history[tx.id].disputed

\* The account table before the last call with the locked flag of every
\* account reversed.
LockedReversed ==
    [c \in DOMAIN pre.accounts |-> [pre.accounts[c] EXCEPT !.locked = ~@]]

\* C20: the locked flag gates nothing: the last call of execute, of any
\* kind, has left the available, held and total of every account and the
\* history that it would have left had the accounts' locked flags been the
\* other way round.
LockedGatesNothing ==
    tx.kind \in TransactionKind =>
        \A r \in {execute(LockedReversed, pre.history, tx)} :
            /\ r.ret = ret
            /\ r.history = history
            /\ DOMAIN r.accounts = DOMAIN accounts
            /\ \A c \in DOMAIN accounts :
                  /\ r.accounts[c].available = accounts[c].available
                  /\ r.accounts[c].held = accounts[c].held
                  /\ r.accounts[c].total = accounts[c].total

\* C20's case: a Deposit of a positive amount into a locked account has
\* gone through.
DepositIntoLockedReached ==
    /\ tx.kind = "Deposit"
    /\ ret = "transfer"
    /\ tx.client_id \in DOMAIN pre.accounts
    /\ pre.accounts[tx.client_id].locked
    /\ unwrap(tx.amount) > 0
    /\ accounts[tx.client_id].available = pre.accounts[tx.client_id].available + unwrap(tx.amount)

\* C21: execute creates or modifies no account but the one of
\* tx.client_id: after the last call of execute, of any kind and however it
\* ended, the accounts of all other clients are the ones that were there
\* before the call, each identical to what it was.
OtherClients == (DOMAIN accounts \cup DOMAIN pre.accounts) \ {tx.client_id}

ExecuteTouchesOnlyItsClient ==
    tx.kind \in TransactionKind =>
        \A c \in OtherClients :
            /\ c \in DOMAIN pre.accounts
            /\ c \in DOMAIN accounts
            /\ accounts[c] = pre.accounts[c]

\* C21's case: a claim made by one client on a transfer recorded for
\* another client has changed the claimant's account, the account of the
\* transfer's client being there.
ClaimOnOtherClientsTransferReached ==
    /\ ret = "claim"
    /\ pre.history[tx.id].client_id # tx.client_id
    /\ pre.history[tx.id].client_id \in DOMAIN pre.accounts
    /\ accounts[tx.client_id] # pre.accounts[tx.client_id]

====
